---- MODULE Spec2Model ----
(***************************************************************************)
(* Model of create-private-key (src/src/main.rs): a one-shot Diffie-Hellman *)
(* key generator.  Texts are sequences of one-character strings, BigUint   *)
(* values are naturals.  Three specifications are defined:                  *)
(*   Spec      - one invocation of main/run with --prime supplied           *)
(*   ParseSpec - parse_biguint applied to bounded texts                     *)
(*   HexSpec   - to_even_length_hex applied to bounded values, parsed back  *)
(* The built-in 2048-bit modulus of the default group is beyond the integer *)
(* range of the model checker, so runs are explored with --prime supplied;  *)
(* the default generator ("2") is modelled.                                 *)
(***************************************************************************)
EXTENDS Integers, Sequences, FiniteSets, TLC

VARIABLES
    args,         \* Args: [prime, generator, output_format]
    prime,        \* run(): let prime
    generator,    \* run(): let generator
    private_key,  \* run(): let private_key
    public_key,   \* run(): let public_key
    stdout,       \* lines printed with println!
    stderr,       \* lines printed with eprintln!
    exit_code,    \* process exit status, -1 while running
    err,          \* the Err(String) that run() returned, "" if none
    pc,           \* position inside main/run
    input,        \* ParseSpec/HexSpec: text handed to parse_biguint
    parsed,       \* ParseSpec/HexSpec: result of parse_biguint
    value,        \* HexSpec: the BigUint being formatted
    hex           \* HexSpec: result of to_even_length_hex

vars == <<args, prime, generator, private_key, public_key, stdout, stderr,
          exit_code, err, pc, input, parsed, value, hex>>

runVars == <<args, prime, generator, private_key, public_key, stdout, stderr,
             exit_code, err>>

fnVars == <<input, parsed, value, hex>>

----------------------------------------------------------------------------
(* Bounds *)

MaxPrime == 13   \* largest number rendered into a --prime / --generator text
MaxLen == 3      \* longest text enumerated for parse_biguint
MaxValue == 4200 \* largest value formatted by to_even_length_hex

----------------------------------------------------------------------------
(* Characters and digits *)

DecDigits == <<"0","1","2","3","4","5","6","7","8","9">>
LowerLetters == <<"a","b","c","d","e","f","g","h","i","j","k","l","m",
                  "n","o","p","q","r","s","t","u","v","w","x","y","z">>
UpperLetters == <<"A","B","C","D","E","F","G","H","I","J","K","L","M",
                  "N","O","P","Q","R","S","T","U","V","W","X","Y","Z">>

IndexOf(seq, c) ==
    IF \E i \in 1..Len(seq) : seq[i] = c
    THEN CHOOSE i \in 1..Len(seq) : seq[i] = c
    ELSE 0

\* char::is_whitespace, restricted to the whitespace characters of the model
is_whitespace(c) == c \in {" ", "\t", "\n", "\r"}

StartsWith(s, p) ==
    /\ Len(s) >= Len(p)
    /\ \A i \in 1..Len(p) : s[i] = p[i]

Drop(s, n) == SubSeq(s, n + 1, Len(s))

----------------------------------------------------------------------------
(* Results: Result<BigUint, String> *)

Ok(v) == [ok |-> TRUE, value |-> v, err |-> ""]
Err(msg) == [ok |-> FALSE, value |-> -1, err |-> msg]

----------------------------------------------------------------------------
(* num-bigint: BigUint::parse_bytes / from_str_radix, as called at line 158 *)

\* digit value of a character, 255 (u8::MAX) for anything that is no digit
DigitValue(c) ==
    IF IndexOf(DecDigits, c) # 0 THEN IndexOf(DecDigits, c) - 1
    ELSE IF IndexOf(LowerLetters, c) # 0 THEN IndexOf(LowerLetters, c) + 9
    ELSE IF IndexOf(UpperLetters, c) # 0 THEN IndexOf(UpperLetters, c) + 9
    ELSE 255

RECURSIVE FromDigits(_, _, _)
FromDigits(s, radix, acc) ==
    IF s = <<>> THEN acc
    ELSE FromDigits(Tail(s), radix, acc * radix + DigitValue(Head(s)))

\* one leading '+' is dropped unless another '+' follows it; the empty text
\* and a leading '_' are rejected; '_' between digits is skipped; every other
\* character must be a digit below the radix
parse_bytes(buf, radix) ==
    LET s == IF StartsWith(buf, <<"+">>) /\ ~StartsWith(Tail(buf), <<"+">>)
             THEN Tail(buf) ELSE buf
        body == SelectSeq(s, LAMBDA c : c # "_")
    IN IF s = <<>> THEN Err("empty")
       ELSE IF Head(s) = "_" THEN Err("invalid")
       ELSE IF \E i \in 1..Len(body) : DigitValue(body[i]) >= radix
            THEN Err("invalid")
       ELSE Ok(FromDigits(body, radix, 0))

----------------------------------------------------------------------------
(* parse_biguint, main.rs 142-160 *)

cleaned(text) == SelectSeq(text, LAMBDA c : ~is_whitespace(c) /\ c # "_")

strip_prefix(c) ==
    IF StartsWith(c, <<"0","x">>) \/ StartsWith(c, <<"0","X">>)
    THEN [radix |-> 16, digits |-> Drop(c, 2)]
    ELSE [radix |-> 10, digits |-> c]

\* variant: the prefix test applied to the text before it is cleaned
parse_biguint_prefix_before_clean(text) ==
    LET c == cleaned(text)
        rd == strip_prefix(text)
        r == parse_bytes(cleaned(rd.digits), rd.radix)
    IN IF c = <<>> THEN Err("value cannot be empty")
       ELSE IF r.ok THEN r
       ELSE Err("failed to parse big integer")

parse_biguint(text) ==
    LET c == cleaned(text)
        rd == strip_prefix(c)
        r == parse_bytes(rd.digits, rd.radix)
    IN IF c = <<>> THEN Err("value cannot be empty")
       ELSE IF r.ok THEN r
       ELSE Err("failed to parse big integer")

----------------------------------------------------------------------------
(* Formatting: to_str_radix, {:X}, to_even_length_hex (main.rs 167-174) *)

DigitChar(d, upper) ==
    IF d < 10 THEN DecDigits[d + 1]
    ELSE IF upper THEN UpperLetters[d - 9] ELSE LowerLetters[d - 9]

RECURSIVE Render(_, _, _)
Render(v, radix, upper) ==
    IF v < radix THEN <<DigitChar(v, upper)>>
    ELSE Render(v \div radix, radix, upper) \o <<DigitChar(v % radix, upper)>>

to_str_radix(v, radix) == Render(v, radix, FALSE)

UpperHex(v) == Render(v, 16, TRUE)

\* variant: the padding zero appended instead of prepended
to_even_length_hex_pad_right(v) ==
    LET h == UpperHex(v)
    IN IF Len(h) % 2 = 0 THEN h ELSE h \o <<"0">>

\* variant: no padding
to_even_length_hex_no_pad(v) == UpperHex(v)

to_even_length_hex(v) ==
    LET h == UpperHex(v)
    IN IF Len(h) % 2 = 0 THEN h ELSE <<"0">> \o h

----------------------------------------------------------------------------
(* Arithmetic used by run(): BigUint::bits, BigUint::modpow *)

RECURSIVE bits(_)
bits(n) == IF n = 0 THEN 0 ELSE 1 + bits(n \div 2)

RECURSIVE modpow(_, _, _)
modpow(base, exponent, modulus) ==
    IF exponent = 0 THEN 1 % modulus
    ELSE LET half == modpow(base, exponent \div 2, modulus)
             sq == (half * half) % modulus
         IN IF exponent % 2 = 1 THEN (sq * base) % modulus ELSE sq

----------------------------------------------------------------------------
(* Validation gates of run(), main.rs 91-96 and 104-109 *)

\* variant: parity tested before size
prime_gate_parity_first(p) ==
    IF p % 2 = 0 THEN "prime modulus must be odd"
    ELSE IF p <= 3 THEN "prime modulus must be greater than 3"
    ELSE ""

\* variant: size gate off by one
prime_gate_accepts_three(p) ==
    IF p <= 2 THEN "prime modulus must be greater than 3"
    ELSE IF p % 2 = 0 THEN "prime modulus must be odd"
    ELSE ""

prime_gate(p) ==
    IF p <= 3 THEN "prime modulus must be greater than 3"
    ELSE IF p % 2 = 0 THEN "prime modulus must be odd"
    ELSE ""

generator_gate(g, p) ==
    IF g <= 1 THEN "generator must be greater than 1"
    ELSE IF g >= p THEN "generator must be less than the prime modulus"
    ELSE ""

\* DhGroup::default_generator
default_generator == <<"2">>

\* the text the generator is parsed from, main.rs 98-102
generator_text(a) ==
    IF a.generator # <<>> THEN a.generator[1] ELSE default_generator

----------------------------------------------------------------------------
(* generate_private_key, main.rs 132-140.  The result is the set of values *)
(* the sampler can return; the empty set stands for a panic (underflow of  *)
(* prime - 1, or the lbound < ubound assertion of gen_biguint_range).      *)

gen_biguint_range(lbound, ubound) ==
    IF lbound < ubound THEN lbound..(ubound - 1) ELSE {}

\* variant: the prime itself as the exclusive upper bound
generate_private_key_upper_prime(p) ==
    IF p < 1 THEN {}
    ELSE gen_biguint_range(2, p)

generate_private_key(p) ==
    IF p < 1 THEN {}
    ELSE LET upper_exclusive == p - 1
         IN gen_biguint_range(2, upper_exclusive)

----------------------------------------------------------------------------
(* Output lines *)

Line(key, text) == [key |-> key, value |-> text]

\* variant: decimal line first when both are requested
private_key_lines_decimal_first(format, x) ==
    IF format = "hex" THEN <<Line("private_key_hex", to_even_length_hex(x))>>
    ELSE IF format = "decimal"
         THEN <<Line("private_key_dec", to_str_radix(x, 10))>>
    ELSE <<Line("private_key_dec", to_str_radix(x, 10)),
           Line("private_key_hex", to_even_length_hex(x))>>

private_key_lines(format, x) ==
    IF format = "hex" THEN <<Line("private_key_hex", to_even_length_hex(x))>>
    ELSE IF format = "decimal"
         THEN <<Line("private_key_dec", to_str_radix(x, 10))>>
    ELSE <<Line("private_key_hex", to_even_length_hex(x)),
           Line("private_key_dec", to_str_radix(x, 10))>>

----------------------------------------------------------------------------
(* Inputs of a run *)

OutputFormat == {"hex", "decimal", "both"}

NumberTexts ==
    {to_str_radix(n, 10) : n \in 0..MaxPrime}
        \cup {<<"0", "x">> \o UpperHex(n) : n \in 0..MaxPrime}

OtherTexts ==
    { <<>>, <<"_", " ">>, <<"1", "A">>, <<"-", "5">>, <<"+", "5">>,
      <<"0", "x">>, <<" ", "0", "X", "b", " ">>, <<"1", "_", "1">> }

ArgTexts == NumberTexts \cup OtherTexts

NoFn ==
    /\ input = <<>>
    /\ parsed = Err("")
    /\ value = 0
    /\ hex = <<>>

NoRun ==
    /\ args = [prime |-> <<>>, generator |-> <<>>, output_format |-> "hex"]
    /\ prime = -1
    /\ generator = -1
    /\ private_key = -1
    /\ public_key = -1
    /\ stdout = <<>>
    /\ stderr = <<>>
    /\ exit_code = -1
    /\ err = ""

----------------------------------------------------------------------------
(* Spec: one invocation, main.rs 75-130 *)

Init ==
    /\ args \in [prime : {<<t>> : t \in ArgTexts},
                 generator : {<<>>} \cup {<<t>> : t \in ArgTexts},
                 output_format : OutputFormat]
    /\ prime = -1
    /\ generator = -1
    /\ private_key = -1
    /\ public_key = -1
    /\ stdout = <<>>
    /\ stderr = <<>>
    /\ exit_code = -1
    /\ err = ""
    /\ pc = "resolve_prime"
    /\ NoFn

\* main.rs 85-89
ResolvePrime ==
    /\ pc = "resolve_prime"
    /\ LET r == parse_biguint(args.prime[1])
       IN IF r.ok
          THEN /\ prime' = r.value
               /\ pc' = "check_prime"
               /\ err' = err
          ELSE /\ err' = r.err
               /\ pc' = "main_err"
               /\ prime' = prime
    /\ UNCHANGED <<args, generator, private_key, public_key, stdout, stderr,
                   exit_code>>
    /\ UNCHANGED fnVars

\* variant: prime_bits printed as soon as the prime gates pass
CheckPrime_prints_early ==
    /\ pc = "check_prime"
    /\ err' = prime_gate(prime)
    /\ pc' = IF err' = "" THEN "resolve_generator" ELSE "main_err"
    /\ stdout' = IF err' = ""
                 THEN Append(stdout, Line("prime_bits", to_str_radix(bits(prime), 10)))
                 ELSE stdout
    /\ UNCHANGED <<args, prime, generator, private_key, public_key,
                   stderr, exit_code>>
    /\ UNCHANGED fnVars

\* main.rs 91-96
CheckPrime ==
    /\ pc = "check_prime"
    /\ err' = prime_gate(prime)
    /\ pc' = IF err' = "" THEN "resolve_generator" ELSE "main_err"
    /\ UNCHANGED <<args, prime, generator, private_key, public_key, stdout,
                   stderr, exit_code>>
    /\ UNCHANGED fnVars

\* main.rs 98-102
ResolveGenerator ==
    /\ pc = "resolve_generator"
    /\ LET r == parse_biguint(generator_text(args))
       IN IF r.ok
          THEN /\ generator' = r.value
               /\ pc' = "check_generator"
               /\ err' = err
          ELSE /\ err' = r.err
               /\ pc' = "main_err"
               /\ generator' = generator
    /\ UNCHANGED <<args, prime, private_key, public_key, stdout, stderr,
                   exit_code>>
    /\ UNCHANGED fnVars

\* main.rs 104-109
CheckGenerator ==
    /\ pc = "check_generator"
    /\ err' = generator_gate(generator, prime)
    /\ pc' = IF err' = "" THEN "generate" ELSE "main_err"
    /\ UNCHANGED <<args, prime, generator, private_key, public_key, stdout,
                   stderr, exit_code>>
    /\ UNCHANGED fnVars

\* main.rs 111-112; a panic ends the process with status 101
GenerateKey ==
    /\ pc = "generate"
    /\ LET candidates == generate_private_key(prime)
       IN IF candidates = {}
          THEN /\ pc' = "panicked"
               /\ exit_code' = 101
               /\ private_key' = private_key
          ELSE /\ private_key' \in candidates
               /\ pc' = "modpow"
               /\ exit_code' = exit_code
    /\ UNCHANGED <<args, prime, generator, public_key, stdout, stderr, err>>
    /\ UNCHANGED fnVars

\* variant: the exponent is sampled a second time
DerivePublicKey_resampled ==
    /\ pc = "modpow"
    /\ \E x \in generate_private_key(prime) :
          public_key' = modpow(generator, x, prime)
    /\ pc' = "print_prime_bits"
    /\ UNCHANGED <<args, prime, generator, private_key, stdout, stderr,
                   exit_code, err>>
    /\ UNCHANGED fnVars

\* main.rs 113
DerivePublicKey ==
    /\ pc = "modpow"
    /\ public_key' = modpow(generator, private_key, prime)
    /\ pc' = "print_prime_bits"
    /\ UNCHANGED <<args, prime, generator, private_key, stdout, stderr,
                   exit_code, err>>
    /\ UNCHANGED fnVars

\* main.rs 115
PrintPrimeBits ==
    /\ pc = "print_prime_bits"
    /\ stdout' = Append(stdout, Line("prime_bits", to_str_radix(bits(prime), 10)))
    /\ pc' = "print_generator"
    /\ UNCHANGED <<args, prime, generator, private_key, public_key, stderr,
                   exit_code, err>>
    /\ UNCHANGED fnVars

\* main.rs 116
PrintGenerator ==
    /\ pc = "print_generator"
    /\ stdout' = Append(stdout, Line("generator", to_str_radix(generator, 10)))
    /\ pc' = "print_private_key"
    /\ UNCHANGED <<args, prime, generator, private_key, public_key, stderr,
                   exit_code, err>>
    /\ UNCHANGED fnVars

\* main.rs 118-125
PrintPrivateKey ==
    /\ pc = "print_private_key"
    /\ stdout' = stdout \o private_key_lines(args.output_format, private_key)
    /\ pc' = "print_public_key"
    /\ UNCHANGED <<args, prime, generator, private_key, public_key, stderr,
                   exit_code, err>>
    /\ UNCHANGED fnVars

\* main.rs 127-129
PrintPublicKey ==
    /\ pc = "print_public_key"
    /\ stdout' = Append(stdout, Line("public_key_hex", to_even_length_hex(public_key)))
    /\ pc' = "main_ok"
    /\ UNCHANGED <<args, prime, generator, private_key, public_key, stderr,
                   exit_code, err>>
    /\ UNCHANGED fnVars

\* main.rs 76-79: run() returned Err
MainErr ==
    /\ pc = "main_err"
    /\ stderr' = Append(stderr, <<"Error: ", err>>)
    /\ exit_code' = 1
    /\ pc' = "exited"
    /\ UNCHANGED <<args, prime, generator, private_key, public_key, stdout,
                   err>>
    /\ UNCHANGED fnVars

\* main.rs 76-80: run() returned Ok(()), main falls off its end
MainOk ==
    /\ pc = "main_ok"
    /\ exit_code' = 0
    /\ pc' = "exited"
    /\ UNCHANGED <<args, prime, generator, private_key, public_key, stdout,
                   stderr, err>>
    /\ UNCHANGED fnVars

Next ==
    \/ ResolvePrime
    \/ CheckPrime
    \/ ResolveGenerator
    \/ CheckGenerator
    \/ GenerateKey
    \/ DerivePublicKey
    \/ PrintPrimeBits
    \/ PrintGenerator
    \/ PrintPrivateKey
    \/ PrintPublicKey
    \/ MainErr
    \/ MainOk

Spec == Init /\ [][Next]_vars

----------------------------------------------------------------------------
(* ParseSpec: parse_biguint on every text of at most MaxLen characters,    *)
(* re-applied after a separator is inserted into or removed from the text  *)

ParseChars == {"0", "1", "5", "A", "f", "x", "X", "+", "-", "_", " "}

Separators == {c \in ParseChars : is_whitespace(c) \/ c = "_"}

RECURSIVE TextsUpTo(_)
TextsUpTo(n) ==
    IF n = 0 THEN {<<>>}
    ELSE LET shorter == TextsUpTo(n - 1)
         IN shorter \cup {Append(t, c) : t \in shorter, c \in ParseChars}

ExampleTexts ==
    { <<"0", "x", "0", "x", "1">>,
      <<"1", "_", "0", "0", "0">>,
      <<" ", "0", "x", "1", "A", " ">> }

InsertAt(t, i, c) == SubSeq(t, 1, i) \o <<c>> \o SubSeq(t, i + 1, Len(t))

RemoveAt(t, i) == SubSeq(t, 1, i - 1) \o SubSeq(t, i + 1, Len(t))

ParseInit ==
    /\ input \in TextsUpTo(MaxLen) \cup ExampleTexts
    /\ parsed = Err("")
    /\ value = 0
    /\ hex = <<>>
    /\ pc = "parse_input"
    /\ NoRun

ParseText ==
    /\ pc = "parse_input"
    /\ parsed' = parse_biguint(input)
    /\ pc' = "parse_done"
    /\ UNCHANGED <<input, value, hex>>
    /\ UNCHANGED runVars

InsertSeparator ==
    /\ pc = "parse_done"
    /\ Len(input) <= MaxLen
    /\ \E i \in 0..Len(input), c \in Separators :
          input' = InsertAt(input, i, c)
    /\ parsed' = parse_biguint(input')
    /\ UNCHANGED <<pc, value, hex>>
    /\ UNCHANGED runVars

RemoveSeparator ==
    /\ pc = "parse_done"
    /\ \E i \in 1..Len(input) :
          /\ input[i] \in Separators
          /\ input' = RemoveAt(input, i)
    /\ parsed' = parse_biguint(input')
    /\ UNCHANGED <<pc, value, hex>>
    /\ UNCHANGED runVars

ParseNext ==
    \/ ParseText
    \/ InsertSeparator
    \/ RemoveSeparator

ParseSpec == ParseInit /\ [][ParseNext]_vars

----------------------------------------------------------------------------
(* HexSpec: to_even_length_hex on every value up to MaxValue, the result   *)
(* parsed back by parse_biguint behind a "0x" prefix                       *)

HexInit ==
    /\ value \in 0..MaxValue
    /\ hex = <<>>
    /\ input = <<>>
    /\ parsed = Err("")
    /\ pc = "format_hex"
    /\ NoRun

FormatHex ==
    /\ pc = "format_hex"
    /\ hex' = to_even_length_hex(value)
    /\ pc' = "parse_back"
    /\ UNCHANGED <<input, parsed, value>>
    /\ UNCHANGED runVars

ParseBack ==
    /\ pc = "parse_back"
    /\ input' = <<"0", "x">> \o hex
    /\ parsed' = parse_biguint(input')
    /\ pc' = "round_trip_done"
    /\ UNCHANGED <<value, hex>>
    /\ UNCHANGED runVars

HexNext ==
    \/ FormatHex
    \/ ParseBack

HexSpec == HexInit /\ [][HexNext]_vars

----------------------------------------------------------------------------
(* Properties of a run (Spec) *)

Succeeded == pc = "exited" /\ exit_code = 0

Failed == pc = "exited" /\ exit_code = 1

Keys(lines) == [i \in 1..Len(lines) |-> lines[i].key]

IsPrefix(a, b) == Len(a) <= Len(b) /\ SubSeq(b, 1, Len(a)) = a

\* C1: every private key the run has sampled lies in the closed range
\* 2 .. p-2 of the validated modulus p.
C1_RangeInvariant ==
    private_key # -1 =>
        /\ prime > 3
        /\ prime % 2 = 1
        /\ 2 <= private_key
        /\ private_key <= prime - 2

C1_Witness ==
    /\ Succeeded
    /\ prime = 11
    /\ private_key = prime - 2

\* the message of the first violated gate, "" when no gate is violated
FirstViolatedGate(a) ==
    LET p == parse_biguint(a.prime[1])
        g == parse_biguint(IF a.generator = <<>> THEN <<"2">> ELSE a.generator[1])
    IN IF ~p.ok THEN p.err
       ELSE IF p.value <= 3 THEN "prime modulus must be greater than 3"
       ELSE IF p.value % 2 = 0 THEN "prime modulus must be odd"
       ELSE IF ~g.ok THEN g.err
       ELSE IF g.value <= 1 THEN "generator must be greater than 1"
       ELSE IF g.value >= p.value
            THEN "generator must be less than the prime modulus"
       ELSE ""

\* C2: a finished run reports the message of the first violated gate in the
\* order prime parse, p > 3, p odd, generator parse, g > 1, g < p, and
\* succeeds only when no gate is violated; prime "3" and "2" give the
\* greater-than-3 error, "4" the must-be-odd error, prime "11" with generator
\* "11" the less-than-prime error, generator "1" under a valid prime the
\* greater-than-1 error, and an invalid prime wins over any generator defect.
C2_FirstViolatedGate ==
    pc = "exited" =>
        /\ err = FirstViolatedGate(args)
        /\ Succeeded <=> FirstViolatedGate(args) = ""
        /\ Failed <=> FirstViolatedGate(args) # ""
        /\ args.prime[1] \in {<<"3">>, <<"2">>}
              => err = "prime modulus must be greater than 3"
        /\ args.prime[1] = <<"4">> => err = "prime modulus must be odd"
        /\ args.prime[1] = <<"1", "1">> /\ args.generator = << <<"1", "1">> >>
              => err = "generator must be less than the prime modulus"
        /\ args.prime[1] = <<"1", "1">> /\ args.generator = << <<"1">> >>
              => err = "generator must be greater than 1"
        /\ args.prime[1] = <<"4">> /\ args.generator = << <<"1", "A">> >>
              => err = "prime modulus must be odd"

C2_Witness ==
    /\ Failed
    /\ args.prime[1] = <<"2">>
    /\ args.generator = << <<"1", "A">> >>
    /\ err = "prime modulus must be greater than 3"

RECURSIVE PowerMod(_, _, _)
PowerMod(g, x, p) == IF x = 0 THEN 1 % p ELSE (g * PowerMod(g, x - 1, p)) % p

\* the integer a printed line carries
Decoded(line) ==
    IF line.key \in {"private_key_hex", "public_key_hex"}
    THEN parse_biguint(<<"0", "x">> \o line.value)
    ELSE parse_biguint(line.value)

\* C3: once the public_key_hex line is printed, the value it carries is
\* g^x mod p for the validated p and g and for the x carried by every
\* private-key line of the same run, which is the one key that was sampled.
C3_PublicKeyConsistency ==
    \A i \in 1..Len(stdout) :
        stdout[i].key = "public_key_hex" =>
            /\ \E j \in 1..Len(stdout) :
                  stdout[j].key \in {"private_key_hex", "private_key_dec"}
            /\ \A j \in 1..Len(stdout) :
                  stdout[j].key \in {"private_key_hex", "private_key_dec"} =>
                      /\ Decoded(stdout[j]) = Ok(private_key)
                      /\ Decoded(stdout[i]) =
                            Ok(PowerMod(generator, Decoded(stdout[j]).value, prime))

C3_Witness ==
    /\ Succeeded
    /\ prime = 11
    /\ generator = 2
    /\ private_key = 7
    /\ stdout[Len(stdout)] = Line("public_key_hex", <<"0", "7">>)

AllLinesPrinted ==
    /\ \E i \in 1..Len(stdout) : stdout[i].key = "prime_bits"
    /\ \E i \in 1..Len(stdout) : stdout[i].key = "generator"
    /\ \E i \in 1..Len(stdout) :
          stdout[i].key \in {"private_key_hex", "private_key_dec"}
    /\ \E i \in 1..Len(stdout) : stdout[i].key = "public_key_hex"

\* C4: a run that ends with an error has printed nothing on standard output,
\* has sampled no key, has written exactly one "Error: <message>" line and
\* exits with 1; a run that ends without error has printed all its lines,
\* nothing on standard error, and exits with 0; anything printed or sampled
\* implies that every gate has passed.
C4_NoPartialOutput ==
    /\ (pc = "main_err" \/ (pc = "exited" /\ err # "")) =>
          /\ stdout = <<>>
          /\ private_key = -1
          /\ public_key = -1
    /\ (pc = "exited" /\ err # "") =>
          /\ stderr = << <<"Error: ", err>> >>
          /\ exit_code = 1
    /\ (pc = "exited" /\ err = "") =>
          /\ stderr = <<>>
          /\ exit_code = 0
          /\ AllLinesPrinted
    /\ (stdout # <<>> \/ private_key # -1) =>
          /\ err = ""
          /\ FirstViolatedGate(args) = ""
    /\ pc # "exited" => exit_code = -1 /\ stderr = <<>>

C4_Witness ==
    /\ Failed
    /\ prime = 11
    /\ generator = 11
    /\ err = "generator must be less than the prime modulus"
    /\ stdout = <<>>
    /\ Len(stderr) = 1

ExpectedKeys(format) ==
    <<"prime_bits", "generator">>
        \o (IF format \in {"hex", "both"} THEN <<"private_key_hex">> ELSE <<>>)
        \o (IF format \in {"decimal", "both"} THEN <<"private_key_dec">> ELSE <<>>)
        \o <<"public_key_hex">>

\* C9: the lines printed so far are always a prefix of prime_bits, generator,
\* private_key_hex (format hex or both), private_key_dec (format decimal or
\* both), public_key_hex; a successful run has printed exactly that sequence,
\* and the last line carries the public key in even-length hex.
C9_OutputShape ==
    /\ IsPrefix(Keys(stdout), ExpectedKeys(args.output_format))
    /\ pc \in {"main_ok", "exited"} /\ err = "" =>
          /\ Keys(stdout) = ExpectedKeys(args.output_format)
          /\ Decoded(stdout[Len(stdout)]) = Ok(public_key)
          /\ Len(stdout[Len(stdout)].value) % 2 = 0

C9_Witness ==
    /\ Succeeded
    /\ args.output_format = "both"
    /\ Keys(stdout) = <<"prime_bits", "generator", "private_key_hex",
                        "private_key_dec", "public_key_hex">>

\* C10: a modulus that passed the prime gates is at least 5, so p - 1 does
\* not underflow and the range [2, p-1) is not empty: key generation never
\* aborts; p = 5 yields exactly the
\* candidates 2 and 3.
C10_NoEmptyRange ==
    /\ pc # "panicked"
    /\ pc = "generate" =>
          /\ prime >= 5
          /\ 2 < prime - 1
          /\ generate_private_key(prime) # {}
          /\ prime = 5 => generate_private_key(prime) = {2, 3}
    /\ pc = "modpow" /\ prime = 5 => private_key \in {2, 3}

C10_Witness ==
    /\ pc = "modpow"
    /\ prime = 5
    /\ private_key = 3

----------------------------------------------------------------------------
(* Properties of parse_biguint (ParseSpec) *)

DecimalDigitChars == {"0", "1", "2", "3", "4", "5", "6", "7", "8", "9"}

HexDigitChars ==
    DecimalDigitChars \cup {"a", "b", "c", "d", "e", "f",
                            "A", "B", "C", "D", "E", "F"}

\* the characters left after whitespace, underscores and a leading 0x / 0X
\* are removed, with the base the prefix selects
Remaining(text) ==
    LET c == SelectSeq(text, LAMBDA ch : ch \notin {" ", "\t", "\n", "\r", "_"})
    IN IF Len(c) >= 2 /\ c[1] = "0" /\ c[2] \in {"x", "X"}
       THEN [base |-> 16, chars |-> SubSeq(c, 3, Len(c))]
       ELSE [base |-> 10, chars |-> c]

HasNonDigit(text) ==
    LET r == Remaining(text)
    IN \E i \in 1..Len(r.chars) :
          r.chars[i] \notin (IF r.base = 16 THEN HexDigitChars
                             ELSE DecimalDigitChars)

\* C5: a text with a remaining character that is not a digit of the selected
\* base (a hex letter without prefix, a sign, a second prefix) is rejected
\* with "failed to parse big integer".
C5_RejectsNonDigits ==
    pc = "parse_done" /\ HasNonDigit(input) =>
        parsed = Err("failed to parse big integer")

\* C8: inserting or removing a whitespace or underscore character anywhere
\* in the text leaves the result of parse_biguint unchanged; "1_000" parses
\* as 1000, " 0x1A " as 26, and a text of separators only fails with "value
\* cannot be empty" like the empty text.
C8_SeparatorTolerance ==
    /\ [][(pc = "parse_done" /\ pc' = "parse_done") => parsed' = parsed]_vars
    /\ [](pc = "parse_done" =>
            /\ input = <<"1", "_", "0", "0", "0">> => parsed = Ok(1000)
            /\ input = <<" ", "0", "x", "1", "A", " ">> => parsed = Ok(26)
            /\ (\A i \in 1..Len(input) : input[i] \in {" ", "_"})
                  => parsed = Err("value cannot be empty"))

C8_Witness ==
    /\ pc = "parse_done"
    /\ input = <<"0", "_", "x", "1">>
    /\ parsed = Ok(1)

----------------------------------------------------------------------------
(* Properties of to_even_length_hex (HexSpec) *)

UpperHexDigits == <<"0", "1", "2", "3", "4", "5", "6", "7", "8", "9",
                    "A", "B", "C", "D", "E", "F">>

RECURSIVE HexNumber(_)
HexNumber(t) ==
    IF t = <<>> THEN 0
    ELSE 16 * HexNumber(SubSeq(t, 1, Len(t) - 1))
            + (IndexOf(UpperHexDigits, t[Len(t)]) - 1)

\* the rendering without its padding zero
Natural(t) == IF Len(t) > 1 /\ t[1] = "0" THEN Tail(t) ELSE t

\* C6: "0x" followed by the even-length hex rendering of v parses back to v.
C6_HexRoundTrip ==
    pc = "round_trip_done" =>
        /\ input = <<"0", "x">> \o hex
        /\ parsed = Ok(value)

C6_Witness ==
    /\ pc = "round_trip_done"
    /\ value = 256
    /\ hex = <<"0", "1", "0", "0">>
    /\ parsed = Ok(256)

\* C7: the rendering has even length, uses only 0-9 and A-F, has no "0x"
\* prefix, denotes v, and is the natural rendering padded with one '0'
\* exactly when the natural digit count is odd (0 renders as "00").
C7_EvenLengthHex ==
    pc \in {"parse_back", "round_trip_done"} =>
        /\ Len(hex) % 2 = 0
        /\ Len(hex) >= 2
        /\ \A i \in 1..Len(hex) : IndexOf(UpperHexDigits, hex[i]) # 0
        /\ ~(hex[1] = "0" /\ hex[2] \in {"x", "X"})
        /\ HexNumber(hex) = value
        /\ Natural(hex) = <<"0">> \/ Natural(hex)[1] # "0"
        /\ Len(Natural(hex)) % 2 = 1 <=> Len(hex) = Len(Natural(hex)) + 1
        /\ Len(Natural(hex)) % 2 = 0 <=> hex = Natural(hex)
        /\ value = 0 => hex = <<"0", "0">>

C7_Witness ==
    /\ pc = "parse_back"
    /\ value = 2748
    /\ hex = <<"0", "A", "B", "C">>

====
